---- MODULE Spec2Model ----
(***************************************************************************)
(* Model of src/src/components/PurchaseOrderEditor.jsx: the purchase-order *)
(* editor's Document state, its persistence in localStorage (load with     *)
(* legacy migration, save, export, import, clear), its mutators and its    *)
(* two reactive rules (option -> header, item count -> sales length).      *)
(*                                                                         *)
(* JavaScript values are tagged records.  A text is a sequence of          *)
(* characters; texts that the program never parses (preset names, labels,  *)
(* the other header fields) are written as a single token; the texts that  *)
(* reach parseNum (qty, unitPrice, sales entries, typed sold quantities)   *)
(* or `new Date` (francoDate) are spelled character by character.          *)
(* Numbers of the model are integers: no text of the model carries a       *)
(* non-zero fractional digit.                                              *)
(***************************************************************************)
EXTENDS Integers, Sequences, FiniteSets, TLC

VARIABLES
  phase,     \* "boot" before the component mounts, "run", or "crashed"
  state,     \* the component's `state` (useState, line 94)
  storage,   \* localStorage: slot name -> stored text
  rstate,    \* `state` as of the last committed render (effect closures, deps)
  pending,   \* effects scheduled by the last commit and not yet flushed
  lazy,      \* TRUE when the last commit did not come from a discrete event
  tab,       \* the `tab` state (line 288)
  file,      \* the text of the last exported file
  last,      \* the last user operation, its arguments and what it reported
  nops,      \* number of user operations so far
  full,      \* localStorage.setItem throws (quota exceeded, storage disabled)
  clock      \* the browser's clock and Date parser, as `new Date` sees them

vars ==
  <<phase, state, storage, rstate, pending, lazy, tab, file, last, nops, full, clock>>

(***************************************************************************)
(* Bounds of the model.                                                    *)
(***************************************************************************)
MaxOps == 3

(***************************************************************************)
(* JavaScript values.                                                      *)
(***************************************************************************)
Undef == [k |-> "undef"]
Null == [k |-> "null"]
Num(n) == [k |-> "num", v |-> n]
Str(s) == [k |-> "str", v |-> s]
Arr(a) == [k |-> "arr", v |-> a]
Obj(o) == [k |-> "obj", v |-> o]

NoFields == [x \in {} |-> Undef]

IsNullish(v) == v.k \in {"undef", "null"}
IsArray(v) == v.k = "arr"
IsObj(v) == v.k = "obj"

\* JavaScript truthiness (`if (v3)`, `v2 || v1`, `!data.header`).
Truthy(v) ==
  CASE v.k \in {"undef", "null"} -> FALSE
    [] v.k = "num" -> v.v # 0
    [] v.k = "str" -> v.v # <<>>
    [] OTHER -> TRUE

\* Property read `v.key`; reading a property of null or undefined throws,
\* which callers test with IsNullish before they use Get.
Get(v, key) ==
  IF IsObj(v) /\ key \in DOMAIN v.v THEN v.v[key] ELSE Undef

\* Object spread `{...v}`: the own enumerable properties of an object,
\* nothing for a number, null or undefined.
Spread(v) == IF IsObj(v) THEN v.v ELSE NoFields

\* `{...o, ...p}` on property maps.
Merge(o, p) ==
  [x \in DOMAIN o \cup DOMAIN p |-> IF x \in DOMAIN p THEN p[x] ELSE o[x]]

\* `a ?? b`
Coalesce(a, b) == IF IsNullish(a) THEN b ELSE a

\* `arr[i]` with a JavaScript (0-based) index; a missing slot reads undefined.
At(a, i) == IF IsArray(a) /\ i + 1 \in DOMAIN a.v THEN a.v[i + 1] ELSE Undef

\* `arr.length`
Length(a) == IF a.k \in {"arr", "str"} THEN Len(a.v) ELSE 0

(***************************************************************************)
(* Texts and numbers.                                                      *)
(***************************************************************************)
Digits == <<"0", "1", "2", "3", "4", "5", "6", "7", "8", "9">>

IsDigit(c) == \E d \in DOMAIN Digits : Digits[d] = c
DigitVal(c) == (CHOOSE d \in DOMAIN Digits : Digits[d] = c) - 1

\* String(n) for an integer n.
RECURSIVE NatToText(_)
NatToText(n) ==
  IF n < 10 THEN <<Digits[n + 1]>>
  ELSE NatToText(n \div 10) \o <<Digits[(n % 10) + 1]>>

NumToText(n) == IF n < 0 THEN <<"-">> \o NatToText(0 - n) ELSE NatToText(n)

\* String(v), on the values the program applies it to.
JsString(v) ==
  CASE v.k = "str" -> v.v
    [] v.k = "num" -> NumToText(v.v)
    [] v.k = "null" -> <<"null">>
    [] v.k = "undef" -> <<"undefined">>
    [] v.k = "arr" -> <<>>
    [] OTHER -> <<"[object Object]">>

\* .replace(/[^\d.-]/g, "")
StripNonNumeric(t) ==
  SelectSeq(t, LAMBDA c : IsDigit(c) \/ c = "." \/ c = "-")

\* The longest prefix of t made of digits, and its value.
RECURSIVE DigitRun(_)
DigitRun(t) ==
  IF t # <<>> /\ IsDigit(Head(t)) THEN <<Head(t)>> \o DigitRun(Tail(t)) ELSE <<>>

RECURSIVE DigitsValue(_, _)
DigitsValue(t, acc) ==
  IF t = <<>> THEN acc ELSE DigitsValue(Tail(t), acc * 10 + DigitVal(Head(t)))

\* parseFloat on a text of digits, "." and "-": an optional sign, digits, an
\* optional "." and digits; NaN when there is no digit.  The fraction digits
\* are read and, being zero in every text of the model, add nothing.
ParseFloat(t) ==
  LET neg == t # <<>> /\ Head(t) = "-"
      body == IF neg THEN Tail(t) ELSE t
      int == DigitRun(body)
      rest == SubSeq(body, Len(int) + 1, Len(body))
      frac == IF rest # <<>> /\ Head(rest) = "." THEN DigitRun(Tail(rest)) ELSE <<>>
      mag == DigitsValue(int, 0)
  IN  IF int = <<>> /\ frac = <<>> THEN [nan |-> TRUE, n |-> 0]
      ELSE [nan |-> FALSE, n |-> IF neg THEN 0 - mag ELSE mag]

parseNum(v) ==
  IF IsNullish(v) THEN 0
  ELSE LET n == ParseFloat(StripNonNumeric(JsString(v)))
       IN  IF n.nan THEN 0 ELSE n.n

Min(a, b) == IF a < b THEN a ELSE b
Max(a, b) == IF a > b THEN a ELSE b

(***************************************************************************)
(* Dates and daysUntil, lines 13-21.                                       *)
(***************************************************************************)
IsLeap(y) == (y % 4 = 0 /\ y % 100 # 0) \/ y % 400 = 0

DaysInMonth(y, m) ==
  IF m = 2 THEN (IF IsLeap(y) THEN 29 ELSE 28)
  ELSE IF m \in {4, 6, 9, 11} THEN 30 ELSE 31

RECURSIVE DaysBeforeMonth(_, _)
DaysBeforeMonth(y, m) ==
  IF m = 1 THEN 0 ELSE DaysBeforeMonth(y, m - 1) + DaysInMonth(y, m - 1)

DaysBeforeYear(y) ==
  365 * (y - 1) + ((y - 1) \div 4) - ((y - 1) \div 100) + ((y - 1) \div 400)

\* The local calendar day y-m-d, counted in days from 0001-01-01; a day past
\* the end of its month counts on into the next month.
DayNumber(y, m, d) == DaysBeforeYear(y) + DaysBeforeMonth(y, m) + d - 1

\* The text "YYYY-MM-DD" of a date.
TwoDigits(n) == IF n < 10 THEN <<"0">> \o NatToText(n) ELSE NatToText(n)
DateText(y, m, d) == Str(NatToText(y) \o <<"-">> \o TwoDigits(m) \o <<"-">> \o TwoDigits(d))

AllDigits(t) == \A x \in DOMAIN t : IsDigit(t[x])

\* new Date(t + "T23:59:59"): the local calendar day of the instant, or NaN
\* (Invalid Date).  The text must read YYYY-MM-DD; a day of 29..31 that its
\* month does not have is rolled over by a lenient engine and rejected by
\* a strict one.
ParseDate(t, lenient) ==
  IF /\ Len(t) = 10 /\ t[5] = "-" /\ t[8] = "-"
     /\ AllDigits(SubSeq(t, 1, 4)) /\ AllDigits(SubSeq(t, 6, 7))
     /\ AllDigits(SubSeq(t, 9, 10))
  THEN LET y == DigitsValue(SubSeq(t, 1, 4), 0)
           m == DigitsValue(SubSeq(t, 6, 7), 0)
           d == DigitsValue(SubSeq(t, 9, 10), 0)
       IN  IF y >= 1 /\ m \in 1..12 /\ d \in 1..31 /\ (lenient \/ d <= DaysInMonth(y, m))
           THEN [nan |-> FALSE, n |-> DayNumber(y, m, d)]
           ELSE [nan |-> TRUE, n |-> 0]
  ELSE [nan |-> TRUE, n |-> 0]

\* Math.ceil(a / b) for b > 0.
Ceil(a, b) == 0 - ((0 - a) \div b)

\* The clock when the editor starts: `day` is today's local calendar day,
\* `shift` the seconds daylight saving adds to the local time between today's
\* midnight and the target, `lenient` the engine's Date parser.
ClockAtStart == [day |-> DayNumber(2025, 8, 14), shift |-> 0, lenient |-> TRUE]

\* daysUntil: the target is the last second of its day and today counts from
\* its midnight; both instants are whole seconds, so the quotient of the
\* milliseconds by 86400000 is that of the seconds by 86400.  (A quotient in
\* (-1, 0] rounds to -0, which is not < 0 and prints as 0.)
daysUntil(dateISO, clk) ==
  LET target == ParseDate(JsString(dateISO), clk.lenient)
  IN  IF target.nan THEN target
      ELSE [nan |-> FALSE,
            n |-> Ceil((target.n - clk.day) * 86400 + 86399 + clk.shift, 86400)]

(***************************************************************************)
(* Constants, lines 23-56.                                                 *)
(***************************************************************************)
BENEFICIARY_OPTIONS ==
  [KNPC_73000 |->
     [beneficiaryName |-> Str(<<"Kuwait National Petroleum Company">>),
      ltsaNumber |-> Str(<<"73000">>)],
   KIPIC_71449 |->
     [beneficiaryName |-> Str(<<"Kuwait Integrated Petroleum Industries Company">>),
      ltsaNumber |-> Str(<<"71449">>)]]

\* `BENEFICIARY_OPTIONS[option]` is defined.
HasPreset(option) ==
  option.k = "str" /\ Len(option.v) = 1 /\ option.v[1] \in DOMAIN BENEFICIARY_OPTIONS

Preset(option) == BENEFICIARY_OPTIONS[option.v[1]]

OptionKey(name) == Str(<<name>>)

(***************************************************************************)
(* Storage and defaults, lines 58-90.                                      *)
(***************************************************************************)
STORAGE_KEY == "po_app_state_v3"
LEGACY_KEY_V2 == "po_app_state_v2"
LEGACY_KEY_V1 == "po_app_state_v1"
Slots == {STORAGE_KEY, LEGACY_KEY_V2, LEGACY_KEY_V1}

EmptyText == Str(<<>>)

defaultHeader ==
  Obj([poNumber |-> Str(<<"419513">>),
       ltsaNumber |-> BENEFICIARY_OPTIONS.KNPC_73000.ltsaNumber,
       beneficiaryName |-> BENEFICIARY_OPTIONS.KNPC_73000.beneficiaryName,
       ltsaDescription |-> Str(<<"Long-Term Service Agreement">>),
       dateOfIssue |-> Str(<<"2025-04-16">>),
       siteDate |-> Str(<<"2025-08-14">>),
       francoDate |-> DateText(2025, 8, 14),
       status |-> Str(<<"Supplier PO Released">>)])

ItemFields ==
  {"maximoNo", "item", "description", "tpi", "material", "grade", "unitCode",
   "qty", "unitPrice"}

defaultItem == Obj([f \in ItemFields |-> EmptyText])

defaultState ==
  Obj([option |-> OptionKey("KNPC_73000"),
       header |-> defaultHeader,
       items |-> Arr(<<defaultItem>>),
       sales |-> Arr(<<>>)])

(***************************************************************************)
(* JSON texts.  A stored text is absent, a text that JSON.parse rejects,   *)
(* or the JSON text of a value.                                            *)
(***************************************************************************)
Absent == [k |-> "absent"]
Garbage == [k |-> "garbage"]
JsonText(v) == [k |-> "json", v |-> v]

\* What JSON.stringify keeps of a value: a property whose value is
\* undefined is dropped, an undefined array element is written as null.
RECURSIVE ToJson(_)
ToJson(v) ==
  CASE v.k = "obj" ->
         Obj([x \in {y \in DOMAIN v.v : v.v[y] # Undef} |-> ToJson(v.v[x])])
    [] v.k = "arr" ->
         Arr([i \in DOMAIN v.v |-> IF v.v[i] = Undef THEN Null ELSE ToJson(v.v[i])])
    [] OTHER -> v

\* JSON.stringify(v)
Stringify(v) == JsonText(ToJson(v))

\* JSON.parse(text) throws on a text that is not JSON.
ParseThrows(text) == text.k # "json"
Parse(text) == text.v

\* localStorage.getItem(key) || "null"
GetItemOrNull(st, key) == IF st[key] = Absent THEN JsonText(Null) ELSE st[key]

\* localStorage.setItem(STORAGE_KEY, JSON.stringify(v))
SetItem_KeepsOld(st, v) == st
SetItem(st, v) == [st EXCEPT ![STORAGE_KEY] = Stringify(v)]

\* localStorage.removeItem(STORAGE_KEY)
RemoveItem(st) == [st EXCEPT ![STORAGE_KEY] = Absent]

(***************************************************************************)
(* load with migration: the useState initializer, lines 94-133.            *)
(***************************************************************************)
\* The row normalisation of lines 109-119 (and 256-266).
NormalizeItem(r) ==
  Obj([f \in ItemFields |->
         IF f = "qty"
         THEN Coalesce(Get(r, "qty"), Coalesce(Get(r, "ltsaQty"), EmptyText))
         ELSE Coalesce(Get(r, f), EmptyText)])

\* `rows.map((r) => ({maximoNo: r.maximoNo ?? "", ...}))` throws on a row
\* that is null.
NormalizeThrows(rows) == \E i \in DOMAIN rows.v : IsNullish(rows.v[i])
NormalizeItems(rows) == Arr([i \in DOMAIN rows.v |-> NormalizeItem(rows.v[i])])

\* Mutant of MigrateSale: the zero sentinel is not recognised.
MigrateSale_KeepsZero(s) == Str(JsString(Coalesce(s, EmptyText)))

\* `(s) => (s === 0 ? "" : String(s ?? ""))`, line 122
MigrateSale(s) ==
  IF s = Num(0) THEN EmptyText ELSE Str(JsString(Coalesce(s, EmptyText)))

MigrateThrows(old) ==
  IsArray(Get(old, "items")) /\ NormalizeThrows(Get(old, "items"))

\* lines 106-124
Migrate(old) ==
  Obj(Merge(Spread(old),
    [items |-> IF IsArray(Get(old, "items"))
               THEN NormalizeItems(Get(old, "items"))
               ELSE Arr(<<defaultItem>>),
     sales |-> IF IsArray(Get(old, "sales"))
               THEN Arr([i \in DOMAIN Get(old, "sales").v |->
                           MigrateSale(Get(old, "sales").v[i])])
               ELSE Arr(<<>>)]))

\* The initializer: the Document it returns and the storage it leaves.
\* Every exception lands in the catch of line 130.
LoadResult(st) ==
  LET t3 == GetItemOrNull(st, STORAGE_KEY)
      t2 == GetItemOrNull(st, LEGACY_KEY_V2)
      t1 == GetItemOrNull(st, LEGACY_KEY_V1)
      fresh == [state |-> defaultState, storage |-> st]
  IN  IF ParseThrows(t3) THEN fresh
      ELSE IF Truthy(Parse(t3)) THEN [state |-> Parse(t3), storage |-> st]
      ELSE IF ParseThrows(t2) \/ ParseThrows(t1) THEN fresh
      ELSE LET old == IF Truthy(Parse(t2)) THEN Parse(t2) ELSE Parse(t1)
           IN  IF ~Truthy(old) THEN fresh
               ELSE IF MigrateThrows(old) THEN fresh
               ELSE [state |-> Migrate(old),
                     storage |-> SetItem(st, Migrate(old))]

\* The same when localStorage.setItem throws: the write of the migrated
\* Document (line 125) is inside the try, so the load ends in the catch.
LoadResultFull(st) ==
  IF LoadResult(st).storage # st THEN [state |-> defaultState, storage |-> st]
  ELSE LoadResult(st)

(***************************************************************************)
(* Rendering and the two effects, lines 135-194 and the JSX.               *)
(***************************************************************************)
\* The render throws a TypeError: header.francoDate (174), items.map (164,
\* 190), r.unitPrice (164), sales[i] (160), sales.reduce (656, 700).
RenderThrows(s, t) ==
  LET header == Get(s, "header")
      items == Get(s, "items")
      sales == Get(s, "sales")
  IN  \/ IsNullish(header)
      \/ ~IsArray(items)
      \/ \E i \in DOMAIN items.v : IsNullish(items.v[i])
      \/ (Length(items) > 0 /\ IsNullish(sales))
      \/ (t \in {"sales", "remaining"} /\ ~IsArray(sales))

\* Mutant of DepsChanged: the effects have no dependency array and run
\* after every render.
DepsChanged_EveryRender(r, s) == {"option", "sales"}

\* The effects whose dependency differs between two renders: [option]
\* (line 156) and [items.length] (line 188).
DepsChanged(r, s) ==
  {e \in {"option"} : Get(r, "option") # Get(s, "option")}
    \cup {e \in {"sales"} : Length(Get(r, "items")) # Length(Get(s, "items"))}

\* Option effect, lines 149-156: `b.beneficiaryName` throws when the option
\* of the render is not a key of BENEFICIARY_OPTIONS.
OptionEffectThrows(r) == ~HasPreset(Get(r, "option"))

\* Mutant of OptionEffect: the header is rebuilt from the defaults.
OptionEffect_ResetsHeader(r, s) ==
  LET b == Preset(Get(r, "option"))
  IN  Obj(Merge(Spread(s),
        [header |-> Obj(Merge(defaultHeader.v,
                      [beneficiaryName |-> b.beneficiaryName,
                       ltsaNumber |-> b.ltsaNumber]))]))

OptionEffect(r, s) ==
  LET b == Preset(Get(r, "option"))
  IN  Obj(Merge(Spread(s),
        [header |-> Obj(Merge(Spread(Get(s, "header")),
                      [beneficiaryName |-> b.beneficiaryName,
                       ltsaNumber |-> b.ltsaNumber]))]))

\* Sales-length effect, lines 182-188, with the render's `items` and `sales`.
SalesEffectThrows(r) == IsNullish(Get(r, "sales"))

SalesEffectActs(r) == Length(Get(r, "sales")) # Length(Get(r, "items"))

nextSales(r) ==
  Arr([i \in DOMAIN Get(r, "items").v |->
         IF IsNullish(At(Get(r, "sales"), i - 1)) THEN EmptyText
         ELSE Str(JsString(At(Get(r, "sales"), i - 1)))])

SalesEffect(r, s) == Obj(Merge(Spread(s), [sales |-> nextSales(r)]))

(***************************************************************************)
(* Updaters of the actions, lines 197-230 and 631-642.                     *)
(***************************************************************************)
newPODocument ==
  Obj([option |-> OptionKey("KNPC_73000"),
       header |-> defaultHeader,
       items |-> Arr(<<defaultItem>>),
       sales |-> Arr(<<EmptyText>>)])

\* Mutant of updateHeader: the patch replaces the header.
updateHeader_ReplacesHeader(s, patch) ==
  Obj(Merge(Spread(s), [header |-> Obj(patch)]))

updateHeader(s, patch) ==
  Obj(Merge(Spread(s), [header |-> Obj(Merge(Spread(Get(s, "header")), patch))]))

updateItem(s, i, key, v) ==
  Obj(Merge(Spread(s),
    [items |-> Arr([x \in DOMAIN Get(s, "items").v |->
                      IF x - 1 = i
                      THEN Obj(Merge(Spread(Get(s, "items").v[x]), [y \in {key} |-> v]))
                      ELSE Get(s, "items").v[x]])]))

\* `[...s.items]` and `[...s.sales]` throw when the value is not iterable.
addRowThrows(s) == ~IsArray(Get(s, "items")) \/ ~IsArray(Get(s, "sales"))

addRow(s) ==
  Obj(Merge(Spread(s),
    [items |-> Arr(Append(Get(s, "items").v, defaultItem)),
     sales |-> Arr(Append(Get(s, "sales").v, EmptyText))]))

\* `a.filter((_, x) => x !== i)`
FilterOut(a, i) ==
  LET keep(x) == x - 1 # i
      pos == SelectSeq([x \in DOMAIN a |-> x], keep)
  IN  [x \in DOMAIN pos |-> a[pos[x]]]

removeRowThrows(s) ==
  Length(Get(s, "items")) # 1 /\ (~IsArray(Get(s, "items")) \/ ~IsArray(Get(s, "sales")))

\* Mutant of removeRow: the sales entries are not removed with the row.
removeRow_KeepsSales(s, i) ==
  IF Length(Get(s, "items")) = 1 THEN s
  ELSE Obj(Merge(Spread(s), [items |-> Arr(FilterOut(Get(s, "items").v, i))]))

\* Mutant of removeRow: the last row can be removed.
removeRow_NoGuard(s, i) ==
  Obj(Merge(Spread(s),
    [items |-> Arr(FilterOut(Get(s, "items").v, i)),
     sales |-> Arr(FilterOut(Get(s, "sales").v, i))]))

removeRow(s, i) ==
  IF Length(Get(s, "items")) = 1 THEN s
  ELSE Obj(Merge(Spread(s),
         [items |-> Arr(FilterOut(Get(s, "items").v, i)),
          sales |-> Arr(FilterOut(Get(s, "sales").v, i))]))

clearAllItems(s) ==
  Obj(Merge(Spread(s), [items |-> Arr(<<defaultItem>>), sales |-> Arr(<<EmptyText>>)]))

\* Mutant of soldNextVal: the upper clamp is missing.
soldNextVal_NoUpperClamp(row, typed) ==
  LET soldN == Max(parseNum(typed), 0)
  IN  IF parseNum(typed) # soldN THEN Str(NumToText(soldN)) ELSE typed

\* Mutant of soldNextVal: the clamped number is always stored.
soldNextVal_AlwaysNormalises(row, typed) ==
  Str(NumToText(Min(parseNum(Get(row, "qty")), Max(parseNum(typed), 0))))

\* The text the Sold QTY input stores, lines 632-636; `row` is the rendered
\* items[i].
soldNextVal(row, typed) ==
  LET qtyN == parseNum(Get(row, "qty"))
      soldN == Min(qtyN, Max(parseNum(typed), 0))
  IN  IF parseNum(typed) # soldN THEN Str(NumToText(soldN)) ELSE typed

\* `next[i] = v` on a copy of the array: writing past the end leaves holes.
SetAt(a, i, v) ==
  [x \in 1..Max(Len(a), i + 1) |->
     IF x = i + 1 THEN v ELSE IF x <= Len(a) THEN a[x] ELSE Undef]

soldUpdaterThrows(s) == ~IsArray(Get(s, "sales"))

soldUpdater(s, i, nextVal) ==
  Obj(Merge(Spread(s), [sales |-> Arr(SetAt(Get(s, "sales").v, i, nextVal))]))

(***************************************************************************)
(* Import, lines 246-278.                                                  *)
(***************************************************************************)
ALERT_NONE == "none"
ALERT_INVALID == "Invalid PO file."
ALERT_IMPORT_FAILED == "Import failed"

\* line 250
importRejects(data) ==
  ~Truthy(data) \/ ~Truthy(Get(data, "header")) \/ ~IsArray(Get(data, "items"))

\* line 268
ImportSale(s) == IF IsNullish(s) THEN EmptyText ELSE Str(JsString(s))

\* lines 254-270
importMigrated(data) ==
  Obj(Merge(Spread(data),
    [items |-> NormalizeItems(Get(data, "items")),
     sales |-> IF IsArray(Get(data, "sales"))
               THEN Arr([i \in DOMAIN Get(data, "sales").v |->
                           ImportSale(Get(data, "sales").v[i])])
               ELSE Arr(<<>>)]))

\* What importJSON does with a file's text: the alert it shows, and the
\* Document it stores and sets when it accepts the file.
importJSON(text) ==
  IF ParseThrows(text) THEN [alert |-> ALERT_IMPORT_FAILED, accepted |-> FALSE, doc |-> Undef]
  ELSE IF importRejects(Parse(text))
    THEN [alert |-> ALERT_INVALID, accepted |-> FALSE, doc |-> Undef]
  ELSE IF NormalizeThrows(Get(Parse(text), "items"))
    THEN [alert |-> ALERT_IMPORT_FAILED, accepted |-> FALSE, doc |-> Undef]
  ELSE [alert |-> ALERT_NONE, accepted |-> TRUE, doc |-> importMigrated(Parse(text))]

\* The same when localStorage.setItem throws: the catch of line 275 reports
\* the failure and setState is not reached.
importJSONFull(text) ==
  IF importJSON(text).accepted
  THEN [alert |-> ALERT_IMPORT_FAILED, accepted |-> FALSE, doc |-> Undef]
  ELSE importJSON(text)

(***************************************************************************)
(* Inputs of the model: texts a user types, stored slots, imported files.  *)
(***************************************************************************)
Text10 == Str(<<"1", "0">>)
Text2 == Str(<<"2">>)
TextMinus5 == Str(<<"-", "5">>)
Text3pcs == Str(<<"3", " ", "p", "c", "s">>)
Text999 == Str(<<"9", "9", "9">>)
TextMinus05 == Str(<<"-", "0", "5">>)
Text5 == Str(<<"5">>)
Text8 == Str(<<"8">>)

TypedBeneficiary == Str(<<"Typed Beneficiary">>)
StatusInvoiced == Str(<<"Invoiced">>)
StatusCompleted == Str(<<"Completed">>)
StatusShipped == Str(<<"Shipped">>)

OptionKeys == DOMAIN BENEFICIARY_OPTIONS
HeaderPatches ==
  {[beneficiaryName |-> TypedBeneficiary], [status |-> StatusInvoiced],
   [status |-> StatusShipped]}
ItemEdits == {<<"qty", Text10>>, <<"qty", Text2>>, <<"qty", TextMinus5>>}
TypedTexts == {Text3pcs, Text999, TextMinus05}
Tabs == {"purchase", "sales", "remaining"}

Row(fields) == Obj(Merge(defaultItem.v, fields))

\* A current-shape Document: second preset, beneficiary typed over, status
\* that unlocks the sales view, two rows.
DocD ==
  Obj([option |-> OptionKey("KIPIC_71449"),
       header |-> Obj(Merge(defaultHeader.v,
                    [beneficiaryName |-> TypedBeneficiary,
                     ltsaNumber |-> BENEFICIARY_OPTIONS.KIPIC_71449.ltsaNumber,
                     status |-> StatusInvoiced])),
       items |-> Arr(<<Row([qty |-> Text10]), Row([qty |-> TextMinus5])>>),
       sales |-> Arr(<<Text3pcs, EmptyText>>)])

\* Legacy shape A (ltsaQty, numeric sales with 0 for "unset").
LegacyA ==
  Obj([option |-> OptionKey("KNPC_73000"),
       header |-> defaultHeader,
       items |-> Arr(<<Obj([item |-> Str(<<"A">>), ltsaQty |-> Text5]),
                       Obj([item |-> Str(<<"B">>), ltsaQty |-> Text8])>>),
       sales |-> Arr(<<Num(0), Num(3)>>)])

\* Legacy shape B (qty, sales as text or null).
LegacyB ==
  Obj([option |-> OptionKey("KNPC_73000"),
       header |-> defaultHeader,
       items |-> Arr(<<Obj([item |-> Str(<<"A">>), qty |-> Text10, ltsaQty |-> Text5]),
                       Obj([item |-> Str(<<"B">>), qty |-> Num(7)])>>),
       sales |-> Arr(<<Null, Text2>>)])

LegacyNullRow ==
  Obj([option |-> OptionKey("KNPC_73000"),
       header |-> defaultHeader,
       items |-> Arr(<<Null>>),
       sales |-> Arr(<<>>)])

\* Files offered to Import.
FileHeaderNotObject ==
  Obj([option |-> OptionKey("KNPC_73000"),
       header |-> Str(<<"header">>),
       items |-> Arr(<<Row([qty |-> Text10])>>),
       sales |-> Arr(<<EmptyText>>)])
FileItemsNotArray == Obj([header |-> defaultHeader, items |-> Str(<<"items">>)])
FileNoItems ==
  Obj([option |-> OptionKey("KNPC_73000"), header |-> defaultHeader,
       items |-> Arr(<<>>), sales |-> Arr(<<>>)])
FileNoSales ==
  Obj([option |-> OptionKey("KNPC_73000"), header |-> defaultHeader,
       items |-> Arr(<<Row([qty |-> Text10])>>)])
FileNoOption ==
  Obj([header |-> defaultHeader, items |-> Arr(<<Row([qty |-> Text10])>>),
       sales |-> Arr(<<EmptyText>>)])
\* Two rows and no `sales` key, with the option of DocD.
FileTwoRowsNoSales ==
  Obj([option |-> OptionKey("KIPIC_71449"), header |-> defaultHeader,
       items |-> Arr(<<Row([qty |-> Text10]), Row([qty |-> Text8])>>)])

ImportFiles ==
  {Garbage} \cup
  {JsonText(v) : v \in {Num(5), Obj(NoFields), FileHeaderNotObject, FileItemsNotArray,
                        FileNoItems, FileNoSales, FileNoOption, FileTwoRowsNoSales,
                        LegacyNullRow,
                        LegacyA, DocD}}

\* Contents of the three slots when the editor starts.
SlotV3 == {Absent, Garbage, JsonText(Num(0)), JsonText(Num(5)),
           JsonText(Str(<<"text">>)), JsonText(Obj(NoFields)), JsonText(DocD)}
SlotV2 == {Absent, Garbage, JsonText(Num(5)), JsonText(LegacyNullRow), JsonText(LegacyB)}
SlotV1 == {Absent, Garbage, JsonText(LegacyA)}

Storage(v3, v2, v1) ==
  [x \in Slots |-> IF x = STORAGE_KEY THEN v3 ELSE IF x = LEGACY_KEY_V2 THEN v2 ELSE v1]

StartStorages ==
  {Storage(Absent, Absent, Absent), Storage(JsonText(DocD), Absent, Absent),
   Storage(Absent, JsonText(LegacyB), JsonText(LegacyA))}

(***************************************************************************)
(* The state machine.                                                      *)
(***************************************************************************)
\* `quiet`: no effect was pending when the operation began.
NoOp == [op |-> "none", i |-> -1, arg |-> Undef, alert |-> ALERT_NONE, quiet |-> TRUE]
Did(op, i, arg) ==
  [op |-> op, i |-> i, arg |-> arg, alert |-> ALERT_NONE, quiet |-> pending = {}]

Booting(st) ==
  /\ phase = "boot"
  /\ state = Undef
  /\ storage = st
  /\ rstate = Undef
  /\ pending = {}
  /\ lazy = FALSE
  /\ tab = "purchase"
  /\ file = Absent
  /\ last = NoOp
  /\ nops = 0
  /\ full = FALSE

Init == clock = ClockAtStart /\ \E st \in StartStorages : Booting(st)

InitLoad ==
  /\ clock = ClockAtStart
  /\ \E v3 \in SlotV3, v2 \in SlotV2, v1 \in SlotV1 : Booting(Storage(v3, v2, v1))

\* A setState reaches the screen: with effects of the previous commit still
\* pending, React flushes them before it renders (FlushEffects); otherwise
\* the component renders `s` on tab `t` now, and the effects whose
\* dependency changed are scheduled.
Commit(s, t, discrete) ==
  IF pending # {}
  THEN /\ lazy' = (lazy /\ ~discrete)
       /\ UNCHANGED <<phase, rstate, pending>>
  ELSE /\ lazy' = ~discrete
       /\ IF RenderThrows(s, t)
          THEN phase' = "crashed" /\ UNCHANGED <<rstate, pending>>
          ELSE phase' = phase /\ rstate' = s /\ pending' = DepsChanged(rstate, s)

\* setAndSave(updater), lines 138-146, called from an event handler; `next`
\* is what the updater returns, `throws` whether it throws.  setItem is
\* called inside the setState updater and nothing catches what it throws:
\* the render that runs the updater fails and the component goes away.
setAndSave(next, throws) ==
  IF throws \/ full
  THEN phase' = "crashed" /\ UNCHANGED <<state, storage, rstate, pending, lazy>>
  ELSE /\ state' = next
       /\ storage' = SetItem(storage, next)
       /\ Commit(next, tab, TRUE)

\* The user can act: the component is on screen, and no synchronous render
\* is about to flush pending effects.
CanAct == phase = "run" /\ nops < MaxOps /\ (pending = {} \/ lazy)

RenderedRows == 0..(Length(Get(rstate, "items")) - 1)

\* The component mounts: the initializer runs and the first render commits,
\* scheduling both effects.
Mount ==
  /\ phase = "boot"
  /\ LET load == IF full THEN LoadResultFull(storage) ELSE LoadResult(storage)
     IN  state' = load.state /\ storage' = load.storage
  /\ IF RenderThrows(state', tab)
     THEN phase' = "crashed" /\ UNCHANGED <<rstate, pending>>
     ELSE phase' = "run" /\ rstate' = state' /\ pending' = {"option", "sales"}
  /\ lazy' = TRUE
  /\ last' = Did("mount", -1, Undef)
  /\ UNCHANGED <<tab, file, nops, full, clock>>

\* The pending effects run, in the order of their declaration, with the
\* values of the render that scheduled them; their updaters are applied to
\* the latest state and the component renders once.
FlushEffects ==
  /\ phase = "run"
  /\ pending # {}
  /\ LET runOpt == "option" \in pending
         runSal == "sales" \in pending /\ ~SalesEffectThrows(rstate) /\ SalesEffectActs(rstate)
         throws == \/ runOpt /\ OptionEffectThrows(rstate)
                   \/ "sales" \in pending /\ SalesEffectThrows(rstate)
                   \/ (runOpt \/ runSal) /\ full
         s1 == IF runOpt THEN OptionEffect(rstate, state) ELSE state
         s2 == IF runSal THEN SalesEffect(rstate, s1) ELSE s1
     IN  IF throws
         THEN phase' = "crashed" /\ pending' = {} /\ UNCHANGED <<state, storage, rstate>>
         ELSE /\ state' = s2
              /\ storage' = IF runOpt \/ runSal THEN SetItem(storage, s2) ELSE storage
              /\ IF RenderThrows(s2, tab)
                 THEN phase' = "crashed" /\ pending' = {} /\ UNCHANGED rstate
                 ELSE phase' = phase /\ rstate' = s2 /\ pending' = DepsChanged(rstate, s2)
  /\ UNCHANGED <<lazy, tab, file, last, nops, full, clock>>

\* The option select, the header inputs, the item inputs with Add Item,
\* Delete All and the row's remove button are on the purchase tab (lines
\* 344-586); the Sold QTY input is on the sales tab (lines 589-666); New PO,
\* Export, Import and Clear Saved are in the top bar.
\* The select is controlled (value={option}): its onChange fires for a key
\* other than the one on screen.
SelectOption(key) ==
  /\ CanAct
  /\ tab = "purchase"
  /\ OptionKey(key) # Get(rstate, "option")
  /\ setAndSave(Obj(Merge(Spread(state), [option |-> OptionKey(key)])), FALSE)
  /\ last' = Did("option", -1, OptionKey(key))
  /\ nops' = nops + 1
  /\ UNCHANGED <<tab, file, full, clock>>

UpdateHeader(patch) ==
  /\ CanAct
  /\ tab = "purchase"
  /\ setAndSave(updateHeader(state, patch), FALSE)
  /\ last' = Did("updateHeader", -1, Obj(patch))
  /\ nops' = nops + 1
  /\ UNCHANGED <<tab, file, full, clock>>

UpdateItem(i, e) ==
  /\ CanAct
  /\ tab = "purchase"
  /\ i \in RenderedRows
  /\ setAndSave(updateItem(state, i, e[1], e[2]), FALSE)
  /\ last' = Did("updateItem", i, e[2])
  /\ nops' = nops + 1
  /\ UNCHANGED <<tab, file, full, clock>>

AddRow ==
  /\ CanAct
  /\ tab = "purchase"
  /\ setAndSave(addRow(state), addRowThrows(state))
  /\ last' = Did("addRow", -1, Undef)
  /\ nops' = nops + 1
  /\ UNCHANGED <<tab, file, full, clock>>

RemoveRow(i) ==
  /\ CanAct
  /\ tab = "purchase"
  /\ i \in RenderedRows
  /\ setAndSave(removeRow(state, i), removeRowThrows(state))
  /\ last' = Did("removeRow", i, Undef)
  /\ nops' = nops + 1
  /\ UNCHANGED <<tab, file, full, clock>>

ClearAllItems ==
  /\ CanAct
  /\ tab = "purchase"
  /\ setAndSave(clearAllItems(state), FALSE)
  /\ last' = Did("clearAllItems", -1, Undef)
  /\ nops' = nops + 1
  /\ UNCHANGED <<tab, file, full, clock>>

NewPO ==
  /\ CanAct
  /\ setAndSave(newPODocument, FALSE)
  /\ last' = Did("newPO", -1, Undef)
  /\ nops' = nops + 1
  /\ UNCHANGED <<tab, file, full, clock>>

\* lines 280-285
ClearStorage(confirmed) ==
  /\ CanAct
  /\ IF confirmed
     THEN IF full
          THEN /\ storage' = RemoveItem(storage)
               /\ phase' = "crashed"
               /\ UNCHANGED <<state, rstate, pending, lazy>>
          ELSE /\ state' = newPODocument
               /\ storage' = SetItem(RemoveItem(storage), newPODocument)
               /\ Commit(newPODocument, tab, TRUE)
     ELSE UNCHANGED <<phase, state, storage, rstate, pending, lazy>>
  /\ last' = Did("clearStorage", IF confirmed THEN 1 ELSE 0, Undef)
  /\ nops' = nops + 1
  /\ UNCHANGED <<tab, file, full, clock>>

\* lines 233-244: the rendered `state`, serialised.
ExportJSON ==
  /\ CanAct
  /\ file' = Stringify(rstate)
  /\ last' = Did("export", -1, Undef)
  /\ nops' = nops + 1
  /\ UNCHANGED <<phase, state, storage, rstate, pending, lazy, tab, full, clock>>

\* importJSON once the file's text has been read; its setItem (line 271) is
\* inside the try, so a refused write ends in the alert of line 276.
ImportFile(text) ==
  /\ CanAct
  /\ LET r == IF full THEN importJSONFull(text) ELSE importJSON(text)
     IN  /\ IF r.accepted
            THEN /\ state' = r.doc
                 /\ storage' = SetItem(storage, r.doc)
                 /\ Commit(r.doc, tab, FALSE)
            ELSE UNCHANGED <<phase, state, storage, rstate, pending, lazy>>
         /\ last' = [Did("import", -1, text) EXCEPT !.alert = r.alert]
  /\ nops' = nops + 1
  /\ UNCHANGED <<tab, file, full, clock>>

\* lines 287-316: the Sales button is disabled unless salesEnabled.
salesEnabled(s) ==
  Get(Get(s, "header"), "status") \in {StatusInvoiced, StatusCompleted}

SetTab(t) ==
  /\ CanAct
  /\ t # tab
  /\ t = "sales" => salesEnabled(rstate)
  /\ tab' = t
  /\ Commit(state, t, TRUE)
  /\ last' = Did("setTab", -1, Str(<<t>>))
  /\ nops' = nops + 1
  /\ UNCHANGED <<state, storage, file, full, clock>>

\* Sold QTY onChange, lines 631-642.
SoldEdit(i, typed) ==
  /\ CanAct
  /\ tab = "sales"
  /\ i \in RenderedRows
  /\ setAndSave(soldUpdater(state, i, soldNextVal(At(Get(rstate, "items"), i), typed)),
                soldUpdaterThrows(state))
  /\ last' = Did("sold", i, typed)
  /\ nops' = nops + 1
  /\ UNCHANGED <<tab, file, full, clock>>

Next ==
  \/ Mount
  \/ FlushEffects
  \/ \E key \in OptionKeys : SelectOption(key)
  \/ \E patch \in HeaderPatches : UpdateHeader(patch)
  \/ \E i \in RenderedRows, e \in ItemEdits : UpdateItem(i, e)
  \/ AddRow
  \/ \E i \in RenderedRows : RemoveRow(i)
  \/ ClearAllItems
  \/ NewPO
  \/ \E confirmed \in BOOLEAN : ClearStorage(confirmed)
  \/ ExportJSON
  \/ \E text \in ImportFiles \cup ({file} \ {Absent}) : ImportFile(text)
  \/ \E t \in Tabs : SetTab(t)
  \/ \E i \in RenderedRows, typed \in TypedTexts : SoldEdit(i, typed)

Spec == Init /\ [][Next]_vars

\* React runs the passive effects a commit has scheduled: a pending flush
\* is not postponed forever.
\* The operations that change a dependency of a rule, under that fairness.
FilesLive == {JsonText(FileNoSales), JsonText(FileNoOption), JsonText(DocD)}

NextLive ==
  \/ Mount
  \/ FlushEffects
  \/ \E key \in OptionKeys : SelectOption(key)
  \/ AddRow
  \/ \E i \in RenderedRows : RemoveRow(i)
  \/ NewPO
  \/ \E text \in FilesLive : ImportFile(text)

SpecLive == Init /\ [][NextLive]_vars /\ WF_vars(FlushEffects)

NextLoad == Mount \/ FlushEffects

\* The environment: the browser starts to refuse writes to localStorage
\* (the origin's quota is used up, or storage is disabled).
StorageFills ==
  /\ full = FALSE
  /\ full' = TRUE
  /\ UNCHANGED <<phase, state, storage, rstate, pending, lazy, tab, file, last, nops,
                 clock>>

NextQuota == Next \/ StorageFills

SpecQuota == Init /\ [][NextQuota]_vars

\* The Franco date under several clocks: the texts a user may leave in the
\* Franco Date input, and the clocks of the browser that renders them.
FrancoTexts ==
  {DateText(2025, 8, 13), DateText(2025, 8, 14), DateText(2025, 8, 29),
   DateText(2025, 9, 3), DateText(2025, 2, 30), Str(<<"s", "o", "o", "n">>), EmptyText}

Clocks ==
  {[day |-> DayNumber(2025, 8, dd), shift |-> sh, lenient |-> l] :
     dd \in {14, 15, 30}, sh \in {0 - 3600, 0, 3600}, l \in BOOLEAN}

InitFranco ==
  /\ clock \in Clocks
  /\ \E text \in FrancoTexts :
       Booting(Storage(Stringify(updateHeader(newPODocument, [francoDate |-> text])),
                       Absent, Absent))

NextFranco ==
  \/ Mount
  \/ FlushEffects
  \/ \E text \in FrancoTexts : UpdateHeader([francoDate |-> text])

SpecFranco == InitFranco /\ [][NextFranco]_vars

SpecLoad == InitLoad /\ [][NextLoad]_vars

(***************************************************************************)
(* Values the render derives from the Document, lines 159-194.             *)
(***************************************************************************)
\* `parseNum(row?.qty)` and `parseNum(sales[i])`, i a JavaScript index.
qtyOf(row) == parseNum(Get(row, "qty"))
soldOf(s, i) == parseNum(At(Get(s, "sales"), i))

COLOR_ALERT == "#b91c1c"
COLOR_WARNING == "#b45309"
COLOR_NORMAL == "#065f46"

\* Mutant of francoInfo: the warning tier ends before day 15.
francoInfo_WarningBelow15(s, clk) ==
  LET d == daysUntil(Get(Get(s, "header"), "francoDate"), clk)
      left == NumToText(d.n) \o <<" day(s) left until Franco date.">>
  IN  IF d.nan THEN [text |-> <<"Invalid Franco Date">>, color |-> COLOR_ALERT]
      ELSE IF d.n < 0
        THEN [text |-> <<"Franco date passed by ">> \o NumToText(0 - d.n) \o <<" day(s).">>,
              color |-> COLOR_ALERT]
      ELSE IF d.n < 15 THEN [text |-> left, color |-> COLOR_WARNING]
      ELSE [text |-> left, color |-> COLOR_NORMAL]

\* lines 173-179
francoInfo(s, clk) ==
  LET d == daysUntil(Get(Get(s, "header"), "francoDate"), clk)
      left == NumToText(d.n) \o <<" day(s) left until Franco date.">>
  IN  IF d.nan THEN [text |-> <<"Invalid Franco Date">>, color |-> COLOR_ALERT]
      ELSE IF d.n < 0
        THEN [text |-> <<"Franco date passed by ">> \o NumToText(0 - d.n) \o <<" day(s).">>,
              color |-> COLOR_ALERT]
      ELSE IF d.n <= 15 THEN [text |-> left, color |-> COLOR_WARNING]
      ELSE [text |-> left, color |-> COLOR_NORMAL]

\* Mutant of remainingByRow: the difference is not clamped at 0.
remainingByRow_Unclamped(s) ==
  [x \in DOMAIN Get(s, "items").v |-> qtyOf(Get(s, "items").v[x]) - soldOf(s, x - 1)]

\* lines 190-194
remainingByRow(s) ==
  [x \in DOMAIN Get(s, "items").v |->
     Max(qtyOf(Get(s, "items").v[x]) - soldOf(s, x - 1), 0)]

\* `a.reduce((a, b) => a + b, 0)`
RECURSIVE Sum(_)
Sum(a) == IF a = <<>> THEN 0 ELSE Head(a) + Sum(Tail(a))

\* lines 659 and 703
totalRemaining(s) == Sum(remainingByRow(s))

(***************************************************************************)
(* Properties.                                                             *)
(***************************************************************************)
\* The reactive rules have settled: the component is on screen and no
\* effect is pending.
Settled == phase = "run" /\ pending = {}

\* The step is user operation `op`.
Does(op) == nops' = nops + 1 /\ last'.op = op

\* C1: once the sales-length rule has settled, sales.length == items.length
\* (after any sequence of addRow, removeRow and import, from any loaded or
\* default Document).
C1_SalesLengthTracksItems ==
  Settled => Length(Get(state, "sales")) = Length(Get(state, "items"))

\* C2: in every reachable state the item list is non-empty.
C2_ItemsNeverEmpty ==
  phase # "boot" => IsArray(Get(state, "items")) /\ Length(Get(state, "items")) >= 1

\* C3: in every reachable state `option` is a key of the preset table.
C3_OptionAlwaysPreset ==
  phase # "boot" => HasPreset(Get(state, "option"))

\* A slot yields a usable value: its text parses to an object with a header
\* object and an array of rows.
Usable(text) ==
  /\ ~ParseThrows(text)
  /\ IsObj(Get(Parse(text), "header"))
  /\ IsArray(Get(Parse(text), "items"))
  /\ ~NormalizeThrows(Get(Parse(text), "items"))

\* C4: load consults the slots in order: with the current slot absent or
\* unparseable it returns the migrated newer legacy slot if that is usable,
\* else the migrated older one, and the default Document only when no slot
\* yields a usable value.
C4_LoadOrder ==
  [][(phase = "boot" /\ phase' # "boot") =>
       LET t3 == storage[STORAGE_KEY]
           t2 == storage[LEGACY_KEY_V2]
           t1 == storage[LEGACY_KEY_V1]
       IN  /\ (t3 \in {Absent, Garbage} /\ Usable(t2)) => state' = Migrate(Parse(t2))
           /\ (t3 \in {Absent, Garbage} /\ ~Usable(t2) /\ Usable(t1))
                => state' = Migrate(Parse(t1))
           /\ state' = defaultState => ~Usable(t3) /\ ~Usable(t2) /\ ~Usable(t1)]_vars

\* C5: load never fails, whatever the three slots hold: the editor starts
\* and stays on screen with a Document it can render.
C5_LoadNeverFails ==
  last.op \in {"none", "mount"} => phase # "crashed"

\* C6: import rejects a value without a `header` object or an `items` array
\* with "Invalid PO file", and a text that is not JSON with "Import failed";
\* neither changes the Document or the storage.
C6_ImportRejectsBadShape ==
  [][Does("import") =>
       LET text == last'.arg
       IN  /\ ParseThrows(text) =>
                last'.alert = ALERT_IMPORT_FAILED /\ UNCHANGED <<state, storage>>
           /\ (~ParseThrows(text) /\ (~IsObj(Get(Parse(text), "header"))
                                       \/ ~IsArray(Get(Parse(text), "items")))) =>
                last'.alert = ALERT_INVALID /\ UNCHANGED <<state, storage>>]_vars

\* A current-shape Document: a preset option, a full header of texts, at
\* least one row of nine texts, as many sales texts as rows.
IsText(v) == v.k = "str"
CurrentShape(d) ==
  /\ IsObj(d) /\ DOMAIN d.v = {"option", "header", "items", "sales"}
  /\ HasPreset(Get(d, "option"))
  /\ IsObj(Get(d, "header"))
  /\ DOMAIN Get(d, "header").v = DOMAIN defaultHeader.v
  /\ \A f \in DOMAIN Get(d, "header").v : IsText(Get(d, "header").v[f])
  /\ IsArray(Get(d, "items")) /\ Length(Get(d, "items")) >= 1
  /\ \A i \in DOMAIN Get(d, "items").v :
       /\ IsObj(Get(d, "items").v[i])
       /\ DOMAIN Get(d, "items").v[i].v = ItemFields
       /\ \A f \in ItemFields : IsText(Get(d, "items").v[i].v[f])
  /\ IsArray(Get(d, "sales")) /\ Length(Get(d, "sales")) = Length(Get(d, "items"))
  /\ \A i \in DOMAIN Get(d, "sales").v : IsText(Get(d, "sales").v[i])

\* C7: importing the exported text of a current-shape Document D, whatever
\* the editor held before, leaves the Document in memory and in storage
\* equal to D once the reactive rules have settled.
C7_ExportImportRoundTrip ==
  (/\ last.op = "import" /\ last.quiet
   /\ ~ParseThrows(last.arg)
   /\ CurrentShape(Parse(last.arg))
   /\ last.arg = Stringify(Parse(last.arg))
   /\ phase # "boot" /\ pending = {})
  => /\ phase = "run"
     /\ state = Parse(last.arg)
     /\ storage[STORAGE_KEY] = last.arg

\* The load finds no current Document and migrates a legacy one.
LegacyFound(st) ==
  /\ ~ParseThrows(GetItemOrNull(st, STORAGE_KEY))
  /\ ~Truthy(Parse(GetItemOrNull(st, STORAGE_KEY)))
  /\ ~ParseThrows(GetItemOrNull(st, LEGACY_KEY_V2))
  /\ ~ParseThrows(GetItemOrNull(st, LEGACY_KEY_V1))
  /\ \/ Truthy(Parse(GetItemOrNull(st, LEGACY_KEY_V2)))
     \/ Truthy(Parse(GetItemOrNull(st, LEGACY_KEY_V1)))

LegacyOf(st) ==
  IF Truthy(Parse(GetItemOrNull(st, LEGACY_KEY_V2)))
  THEN Parse(GetItemOrNull(st, LEGACY_KEY_V2))
  ELSE Parse(GetItemOrNull(st, LEGACY_KEY_V1))

\* The qty the claim gives a migrated row.
ClaimedQty(r) ==
  IF ~IsNullish(Get(r, "qty")) THEN Get(r, "qty")
  ELSE IF ~IsNullish(Get(r, "ltsaQty")) THEN Get(r, "ltsaQty")
  ELSE EmptyText

\* The conversion of a legacy sales entry, as the claim states it and as
\* amended (a null entry also becomes "").
ClaimedSale(e, amended) ==
  IF e = Num(0) \/ (amended /\ IsNullish(e)) THEN EmptyText ELSE Str(JsString(e))

\* The migrated Document against the legacy one.
MigratedAsClaimed(old, new, amended) ==
  /\ IsArray(Get(old, "items")) =>
       /\ Length(Get(new, "items")) = Length(Get(old, "items"))
       /\ \A i \in DOMAIN Get(old, "items").v :
            Get(Get(new, "items").v[i], "qty") = ClaimedQty(Get(old, "items").v[i])
  /\ IsArray(Get(old, "sales")) =>
       /\ Length(Get(new, "sales")) = Length(Get(old, "sales"))
       /\ \A i \in DOMAIN Get(old, "sales").v :
            Get(new, "sales").v[i] = ClaimedSale(Get(old, "sales").v[i], amended)

LoadMigratesAsClaimed(amended) ==
  (phase = "boot" /\ phase' # "boot" /\ LegacyFound(storage)
     /\ ~MigrateThrows(LegacyOf(storage)))
  => /\ MigratedAsClaimed(LegacyOf(storage), state', amended)
     /\ storage'[STORAGE_KEY] = Stringify(state')
     /\ LoadResult(storage').state = state'
     /\ LoadResult(storage').storage = storage'

\* C8 as stated: migrated qty is qty, else ltsaQty, else ""; a sales entry
\* equal to numeric 0 becomes "" and every other entry its string form; the
\* migrated Document is written under the current key, so that a second
\* load returns the same Document.
C8_LegacyMigrationAsStated == [][LoadMigratesAsClaimed(FALSE)]_vars

\* C8 amended: as stated, except that a null sales entry also becomes "".
C8_LegacyMigration == [][LoadMigratesAsClaimed(TRUE)]_vars

\* C8 witness: legacy shape A has been migrated: ltsaQty "5" became qty
\* "5", sales 0 became "", sales 3 became "3", and the current slot holds
\* the migrated Document.
C8_Witness ==
  /\ last.op = "mount" /\ phase = "run" /\ pending # {}
  /\ storage[LEGACY_KEY_V1] = JsonText(LegacyA)
  /\ storage[LEGACY_KEY_V2] = Absent
  /\ Get(At(Get(state, "items"), 0), "qty") = Text5
  /\ Get(state, "sales") = Arr(<<EmptyText, Str(<<"3">>)>>)
  /\ storage[STORAGE_KEY] = Stringify(state)

\* The numbers of a sold-quantity edit of row i: the qty of the row as
\* rendered, the typed text, and the text stored in sales[i].
SoldQty == parseNum(Get(At(Get(rstate, "items"), last'.i), "qty"))
SoldTyped == parseNum(last'.arg)
SoldStored == At(Get(state', "sales"), last'.i)
SoldApplied == Does("sold") /\ phase' = "run"

SoldFrame ==
  /\ \A j \in 0..Max(Length(Get(state, "sales")), Length(Get(state', "sales"))) :
       j # last'.i => At(Get(state', "sales"), j) = At(Get(state, "sales"), j)
  /\ Get(state', "items") = Get(state, "items")
  /\ Get(state', "header") = Get(state, "header")
  /\ Get(state', "option") = Get(state, "option")

SoldClamped == Min(SoldQty, Max(SoldTyped, 0))

\* C10 as stated: the typed text is stored unchanged if it parses to a
\* number within [0, parseNum(qty)], otherwise the string form of the
\* clamped number is stored; only sales[i] changes.
C10_SoldEditResultAsStated ==
  [][SoldApplied =>
       /\ SoldStored = IF 0 <= SoldTyped /\ SoldTyped <= SoldQty THEN last'.arg
                       ELSE Str(NumToText(SoldClamped))
       /\ SoldFrame]_vars

\* C10 amended: as stated when qty parses to a number >= 0; when qty parses
\* to a negative number q, the typed text is stored unchanged if it parses
\* to q, otherwise the string form of q is stored; only sales[i] changes.
C10_SoldEditResult ==
  [][SoldApplied =>
       /\ SoldQty >= 0 =>
            SoldStored = IF 0 <= SoldTyped /\ SoldTyped <= SoldQty THEN last'.arg
                         ELSE Str(NumToText(SoldClamped))
       /\ SoldQty < 0 =>
            SoldStored = IF SoldTyped = SoldQty THEN last'.arg
                         ELSE Str(NumToText(SoldQty))
       /\ SoldFrame]_vars

\* C10 witness: "3 pcs" typed against qty "10" has been stored unchanged,
\* next to another row.
C10_Witness ==
  /\ last.op = "sold" /\ last.arg = Text3pcs /\ phase = "run"
  /\ Get(At(Get(state, "items"), last.i), "qty") = Text10
  /\ At(Get(state, "sales"), last.i) = Text3pcs
  /\ Length(Get(state, "sales")) > 1

\* C11: in every state on screen and for every row i, remaining(i) =
\* max(parseNum(qty) - parseNum(sales[i]), 0) is >= 0, and so is their sum
\* totalRemaining; also after qty is edited below the sold quantity stored.
C11_RemainingNeverNegative ==
  phase = "run" =>
    /\ \A x \in DOMAIN remainingByRow(rstate) :
         /\ remainingByRow(rstate)[x] >= 0
         /\ remainingByRow(rstate)[x] =
              Max(parseNum(Get(Get(rstate, "items").v[x], "qty"))
                    - parseNum(At(Get(rstate, "sales"), x - 1)), 0)
    /\ totalRemaining(rstate) >= 0

\* C11 witness: qty of a row has been edited to "2", below the "3 pcs" sold
\* that is stored for the row, and the row's remaining is 0.
C11_Witness ==
  /\ phase = "run" /\ last.op = "updateItem" /\ last.arg = Text2
  /\ At(Get(rstate, "sales"), last.i) = Text3pcs
  /\ Get(At(Get(rstate, "items"), last.i), "qty") = Text2
  /\ remainingByRow(rstate)[last.i + 1] = 0

\* The header fields the option rule does not write.
OtherHeaderFields == DOMAIN defaultHeader.v \ {"beneficiaryName", "ltsaNumber"}

\* The step runs the pending effects (no user operation is counted).
EffectsRun == phase = "run" /\ pending # {} /\ nops' = nops /\ last' = last

\* C12: switching `option` to preset key k, once the option rule has
\* settled, sets header.beneficiaryName and header.ltsaNumber to the values
\* of preset k and leaves the other header fields, the items and the sales
\* unchanged.  The switch itself changes `option` only and schedules the
\* rule; the run of the rule that follows writes the two fields only and
\* leaves nothing pending.
C12_OptionSwitch ==
  [][/\ (Does("option") /\ last'.quiet) =>
          /\ phase' = "run" /\ pending' = {"option"}
          /\ Get(state', "option") = last'.arg
          /\ Get(state', "header") = Get(state, "header")
          /\ Get(state', "items") = Get(state, "items")
          /\ Get(state', "sales") = Get(state, "sales")
     /\ (EffectsRun /\ last.op = "option" /\ last.quiet) =>
          /\ phase' = "run" /\ pending' = {}
          /\ Get(state', "option") = last.arg
          /\ Get(Get(state', "header"), "beneficiaryName")
               = Preset(last.arg).beneficiaryName
          /\ Get(Get(state', "header"), "ltsaNumber") = Preset(last.arg).ltsaNumber
          /\ \A f \in OtherHeaderFields :
               Get(Get(state', "header"), f) = Get(Get(state, "header"), f)
          /\ Get(state', "items") = Get(state, "items")
          /\ Get(state', "sales") = Get(state, "sales")]_vars

\* C12 witness: the option of a Document with status "Invoiced" and two rows
\* has been switched to KNPC_73000 and the rule has settled: the header
\* carries that preset's values, the status and the rows are still there.
C12_Witness ==
  /\ Settled /\ last.op = "option" /\ last.quiet
  /\ last.arg = OptionKey("KNPC_73000")
  /\ Get(Get(state, "header"), "beneficiaryName")
       = BENEFICIARY_OPTIONS.KNPC_73000.beneficiaryName
  /\ Get(Get(state, "header"), "ltsaNumber") = BENEFICIARY_OPTIONS.KNPC_73000.ltsaNumber
  /\ Get(Get(state, "header"), "status") = StatusInvoiced
  /\ Get(state, "sales") = Arr(<<Text3pcs, EmptyText>>)
  /\ Length(Get(state, "items")) = 2

\* Operations that leave `option` alone and are named by C13.
EditOps == {"updateHeader", "updateItem", "addRow", "removeRow", "sold"}

\* C13: the option rule is one-way.  updateHeader(patch) changes exactly
\* the header fields named in the patch, never `option`, items or sales,
\* and triggers no rule; updateItem, addRow, removeRow and a sold-quantity
\* edit, and the rules that run after any of these, leave the header and
\* `option` as they are, so a hand-edited beneficiaryName or ltsaNumber
\* stays until `option` is changed.
C13_HeaderEditOneWay ==
  [][/\ (Does("updateHeader") /\ last'.quiet) =>
          /\ phase' = "run" /\ pending' = {}
          /\ \A f \in DOMAIN defaultHeader.v :
               Get(Get(state', "header"), f) =
                 IF f \in DOMAIN last'.arg.v THEN last'.arg.v[f]
                 ELSE Get(Get(state, "header"), f)
          /\ Get(state', "option") = Get(state, "option")
          /\ Get(state', "items") = Get(state, "items")
          /\ Get(state', "sales") = Get(state, "sales")
     /\ (last'.quiet /\ \E op \in EditOps \ {"updateHeader"} : Does(op)) =>
          /\ Get(state', "header") = Get(state, "header")
          /\ Get(state', "option") = Get(state, "option")
     /\ (EffectsRun /\ last.op \in EditOps /\ last.quiet) =>
          /\ Get(state', "header") = Get(state, "header")
          /\ Get(state', "option") = Get(state, "option")]_vars

\* C13 witness: a beneficiary typed over the preset of KNPC_73000 is still
\* in the header after a row was added and the sales rule has settled.
C13_Witness ==
  /\ Settled /\ last.op = "addRow" /\ last.quiet
  /\ Get(state, "option") = OptionKey("KNPC_73000")
  /\ Get(Get(state, "header"), "beneficiaryName") = TypedBeneficiary
  /\ Length(Get(state, "items")) = 2 /\ Length(Get(state, "sales")) = 2

\* The rules a run of the pending effects applies, as the functions they
\* are of the Document they are given (the render is the one that
\* scheduled them).
RunOption(s) == IF "option" \in pending THEN OptionEffect(rstate, s) ELSE s
RunSales(s) ==
  IF "sales" \in pending /\ SalesEffectActs(rstate) THEN SalesEffect(rstate, s) ELSE s

\* C14: both rules are idempotent.  A run of the rules on a Document whose
\* option and item count have not changed since it was settled and saved
\* (a current-shape Document that start-up has just loaded) leaves the
\* Document unchanged; and applying a rule to its own result changes
\* nothing.
C14_RulesIdempotent ==
  [][(EffectsRun /\ phase' = "run") =>
       /\ (last.op = "mount" /\ CurrentShape(state)) => state' = state
       /\ RunOption(RunOption(state)) = RunOption(state)
       /\ RunSales(RunSales(state)) = RunSales(state)]_vars

\* C15: after a confirmed Clear Saved has settled, the current slot is
\* removed (holds no Document) and the Document in memory is the default
\* one.
C15_ClearSavedDestroys ==
  (Settled /\ last.op = "clearStorage" /\ last.i = 1 /\ last.quiet)
  => /\ storage[STORAGE_KEY] = Absent
     /\ state \in {defaultState, newPODocument}

\* C16: whenever the sales-editing view is on screen, header.status is
\* "Invoiced" or "Completed".
C16_SalesViewNeedsStatus ==
  (phase = "run" /\ tab = "sales") => salesEnabled(rstate)

\* Operations C17 calls ordinary mutations.
MutationOps ==
  {"updateHeader", "updateItem", "addRow", "removeRow", "clearAllItems", "newPO",
   "option", "sold"}

\* C17: a refused storage write during an ordinary mutation or a reactive
\* sync is silently ignored: the editor keeps running; only import (and
\* export) report a failure.
C17_FailedWriteIgnored ==
  [][(full /\ phase = "run"
        /\ ((\E op \in MutationOps : Does(op)) \/ EffectsRun))
     => phase' = "run"]_vars

\* Indices tried against removeRow as a function, the valid ones and some
\* that are not.
MaxIndex == 3
Indices == (0 - 1)..MaxIndex

\* C18: removeRow(i) on a Document with exactly one item is a no-op for
\* every index i: items, sales, header and option are unchanged and the
\* item count stays 1.
C18_RemoveLastRowNoOp ==
  [][(Does("removeRow") /\ Length(Get(state, "items")) = 1) =>
       /\ phase' = "run"
       /\ state' = state
       /\ Length(Get(state', "items")) = 1
       /\ \A i \in Indices : removeRow(state, i) = state]_vars

\* C18 witness: the remove button of the only row, whose qty is "10", has
\* been pressed and the row is still there.
C18_Witness ==
  /\ Settled /\ last.op = "removeRow" /\ nops = 2
  /\ storage[LEGACY_KEY_V2] = Absent
  /\ Length(Get(state, "items")) = 1
  /\ Get(At(Get(state, "items"), 0), "qty") = Text10
  /\ Get(state, "sales") = Arr(<<EmptyText>>)

\* The sold-quantity text of row j as the views show it (`sales[j] ?? ""`).
ShownSold(s, j) == Coalesce(At(Get(s, "sales"), j), EmptyText)

\* Row j of s, with its sold text, is row k of t, with its sold text.
SameRow(s, j, t, k) ==
  /\ At(Get(t, "items"), k) = At(Get(s, "items"), j)
  /\ ShownSold(t, k) = ShownSold(s, j)

\* C19: removeRow(i) on a Document with more than one item and a valid
\* index i removes exactly items[i] and sales[i]: the rows before i stay
\* where they are and the rows after i move up by one, each with the sold
\* text it had; header and option are unchanged; the sales rule that runs
\* afterwards keeps every row and its sold text, and leaves as many sales
\* entries as rows.
C19_RemoveRowKeepsAlignment ==
  [][/\ (Does("removeRow") /\ last'.quiet /\ Length(Get(state, "items")) > 1) =>
          /\ phase' = "run" /\ pending' = {"sales"}
          /\ Length(Get(state', "items")) = Length(Get(state, "items")) - 1
          /\ \A j \in 0..(Length(Get(state', "items")) - 1) :
               SameRow(state, IF j < last'.i THEN j ELSE j + 1, state', j)
          /\ Get(state', "header") = Get(state, "header")
          /\ Get(state', "option") = Get(state, "option")
     /\ (EffectsRun /\ last.op = "removeRow" /\ last.quiet) =>
          /\ phase' = "run" /\ pending' = {}
          /\ Get(state', "items") = Get(state, "items")
          /\ \A j \in 0..(Length(Get(state, "items")) - 1) : SameRow(state, j, state', j)
          /\ Length(Get(state', "sales")) = Length(Get(state', "items"))
          /\ Get(state', "header") = Get(state, "header")
          /\ Get(state', "option") = Get(state, "option")]_vars

\* C19 witness: the first of two rows (qty "10", sold "3 pcs") has been
\* removed; the second row (qty "-5", nothing sold) is now the only row.
C19_Witness ==
  /\ Settled /\ last.op = "removeRow" /\ last.i = 0 /\ last.quiet
  /\ storage[LEGACY_KEY_V2] = Absent
  /\ Get(state, "items") = Arr(<<Row([qty |-> TextMinus5])>>)
  /\ Get(state, "sales") = Arr(<<EmptyText>>)
  /\ Get(Get(state, "header"), "status") = StatusInvoiced

\* The Franco date on screen: its text, the day it parses to, the days
\* until it and the message the header card shows for it.
FrancoText == JsString(Get(Get(rstate, "header"), "francoDate"))
FrancoTarget == ParseDate(FrancoText, clock.lenient)
FrancoDays == daysUntil(Get(Get(rstate, "header"), "francoDate"), clock)
FrancoShown == francoInfo(rstate, clock)
DaysLeft(n) == NumToText(n) \o <<" day(s) left until Franco date.">>

\* C20: the Franco classification is a total four-way partition by d =
\* daysUntil(francoDate): NaN gives the invalid message (alert colour),
\* d < 0 "passed by |d| day(s)" (alert), 0 <= d <= 15 "d day(s) left"
\* (warning), d > 15 "d day(s) left" (normal); a date equal to today is in
\* the warning tier, a date 20 days ahead in the normal tier, and a text
\* that is not a date in the invalid tier, and no render fails.
C20_FrancoClassification ==
  phase # "boot" =>
    /\ phase = "run"
    /\ FrancoDays.nan =>
         FrancoShown = [text |-> <<"Invalid Franco Date">>, color |-> COLOR_ALERT]
    /\ (~FrancoDays.nan /\ FrancoDays.n < 0) =>
         FrancoShown =
           [text |-> <<"Franco date passed by ">> \o NatToText(0 - FrancoDays.n)
                       \o <<" day(s).">>,
            color |-> COLOR_ALERT]
    /\ (~FrancoDays.nan /\ 0 <= FrancoDays.n /\ FrancoDays.n <= 15) =>
         FrancoShown = [text |-> DaysLeft(FrancoDays.n), color |-> COLOR_WARNING]
    /\ (~FrancoDays.nan /\ FrancoDays.n > 15) =>
         FrancoShown = [text |-> DaysLeft(FrancoDays.n), color |-> COLOR_NORMAL]
    /\ (~FrancoTarget.nan /\ FrancoTarget.n = clock.day) =>
         FrancoShown.color = COLOR_WARNING
    /\ (~FrancoTarget.nan /\ FrancoTarget.n = clock.day + 20) =>
         FrancoShown.color = COLOR_NORMAL
    /\ (Len(FrancoText) # 10 \/ \A x \in DOMAIN FrancoText : ~IsDigit(FrancoText[x])) =>
         FrancoShown.text = <<"Invalid Franco Date">>

\* C20 witness: a Franco date exactly 15 days away has been typed and is
\* shown in the warning colour.
C20_Witness ==
  /\ phase = "run" /\ last.op = "updateHeader"
  /\ ~FrancoDays.nan /\ FrancoDays.n = 15
  /\ FrancoShown = [text |-> DaysLeft(15), color |-> COLOR_WARNING]

\* The effects that the pending run of the rules will schedule in turn.
\* (None when the run throws: the editor stops.)
RunThrows ==
  \/ "option" \in pending /\ OptionEffectThrows(rstate)
  \/ "sales" \in pending /\ SalesEffectThrows(rstate)
DepsAfterRun ==
  IF RunThrows THEN {} ELSE DepsChanged(rstate, RunSales(RunOption(state)))

\* C21: the reactive rules reach quiescence.  A run of the rules that
\* follows start-up or an operation made at rest schedules no further run
\* (one commit); any run that does schedule another is followed by one that
\* schedules none (two commits); and whenever rules are pending on the
\* running editor they come to rest (or the editor has stopped).
C21_RulesQuiesce ==
  /\ [][EffectsRun =>
          /\ (last.quiet /\ phase' = "run") => pending' = {}
          /\ (phase' = "run" /\ pending' # {}) => DepsAfterRun' = {}]_vars
  /\ (phase = "run" /\ pending # {}) ~> (pending = {} \/ phase # "run")

\* C21 witness: a row was added to a two-row Document, the sales rule ran
\* once, and nothing is pending.
C21_Witness ==
  /\ Settled /\ last.op = "addRow" /\ last.quiet
  /\ Length(Get(state, "items")) = 3 /\ Length(Get(state, "sales")) = 3
  /\ storage[STORAGE_KEY] = Stringify(state)

\* The sales rule acts in this run of the pending effects.
SalesRuleActs ==
  EffectsRun /\ "sales" \in pending /\ ~RunThrows /\ SalesEffectActs(rstate)

\* C22: the sales rule never loses data at surviving positions: when it
\* resizes the sales, every entry of the latest committed Document at an
\* index below the item count keeps its text (a new slot shows the empty
\* text), also when another commit, here a sold-quantity edit, has landed
\* between the commit that changed the item count and the commit of the
\* rule.
C22_SalesRuleKeepsEntries ==
  [][(SalesRuleActs /\ last.op = "sold" /\ phase' = "run") =>
       \A j \in 0..(Length(Get(state', "items")) - 1) :
         ShownSold(state', j) = ShownSold(state, j)]_vars

\* The operations after which the saved text is claimed to follow memory:
\* start-up, every mutation, and an import that was accepted.
SavingOps == MutationOps \cup {"mount"}
AfterSavingOp ==
  \/ last.op \in SavingOps
  \/ last.op = "import" /\ last.alert = ALERT_NONE

\* The saved text in the current slot decodes to the Document s.
DecodesTo(st, s) ==
  /\ ~ParseThrows(st[STORAGE_KEY])
  /\ Parse(st[STORAGE_KEY]) = s

HasHole(s) == \E j \in DOMAIN Get(s, "sales").v : Get(s, "sales").v[j] = Undef
SavedDocument(st) ==
  /\ ~ParseThrows(st[STORAGE_KEY])
  /\ CurrentShape(Parse(st[STORAGE_KEY]))

\* Start-up has loaded the saved Document and its effects have yet to run.
JustLoaded ==
  /\ last.op = "mount"
  /\ SavedDocument(storage)
  /\ state = Parse(storage[STORAGE_KEY])

\* C24: save-then-reload restores the Document.  Starting the editor on a
\* slot that holds a saved Document D loads D, and once start-up has
\* settled the Document in memory is still D; in particular a
\* beneficiaryName or ltsaNumber typed over the preset values is still
\* there.
C24_ReloadRestores ==
  /\ [][(phase = "boot" /\ SavedDocument(storage) /\ phase' = "run") =>
          state' = Parse(storage[STORAGE_KEY])]_vars
  /\ [][(JustLoaded /\ EffectsRun) =>
          /\ phase' = "run" /\ pending' = {}
          /\ \A f \in {"beneficiaryName", "ltsaNumber"} :
               Get(Get(state', "header"), f) = Get(Get(state, "header"), f)
          /\ state' = state]_vars

====
